---- MODULE Spec2Model ----
(***************************************************************************)
(* A model of src/main.py, the OKX trading tool server: the credentials    *)
(* loaded at import, the request signer, the four tools (get_balance,      *)
(* get_ticker, get_kline, create_order) and the start-up code.             *)
(*                                                                         *)
(* Python strings the code inspects (instId, sz, method, the signed        *)
(* message) are sequences of tokens, a token being one character or one    *)
(* literal the code never looks into.  An absent credential (None or "")   *)
(* is the empty sequence: the code tests all three with "not".             *)
(*                                                                         *)
(* Every action runs one tool invocation from one "await" to the next: a   *)
(* network round trip and the synchronous code that follows it.            *)
(***************************************************************************)
EXTENDS Integers, Sequences, FiniteSets, TLC

(***************************************************************************)
(* Bounds of the model.                                                    *)
(***************************************************************************)
\* invocation slots of the host
NumProcs == 2
\* the exchange's clock answers 0 .. MaxTs milliseconds
MaxTs == 1

Procs == 1..NumProcs

(***************************************************************************)
(* Strings.                                                                *)
(***************************************************************************)
Absent == <<>>

Truthy(s) == s # Absent

\* str.upper on the letters the model uses
UpperChar(c) ==
    CASE c = "g" -> "G"
      [] c = "e" -> "E"
      [] c = "t" -> "T"
      [] c = "p" -> "P"
      [] c = "o" -> "O"
      [] c = "s" -> "S"
      [] OTHER -> c

\* a signer that keeps the method's case
UpperNot(s) == s

Upper(s) == [i \in 1..Len(s) |-> UpperChar(s[i])]

RECURSIVE SplitFrom(_, _, _, _)
SplitFrom(s, sep, cur, acc) ==
    IF s = <<>> THEN Append(acc, cur)
    ELSE IF Head(s) = sep
         THEN SplitFrom(Tail(s), sep, <<>>, Append(acc, cur))
         ELSE SplitFrom(Tail(s), sep, Append(cur, Head(s)), acc)

\* str.split(sep): the parts between the separators, empty parts included
Split(s, sep) == SplitFrom(s, sep, <<>>, <<>>)

Digits == {"0", "1", "2", "3", "4", "5", "6", "7", "8", "9"}

DigitVal(c) ==
    CASE c = "0" -> 0 [] c = "1" -> 1 [] c = "2" -> 2 [] c = "3" -> 3
      [] c = "4" -> 4 [] c = "5" -> 5 [] c = "6" -> 6 [] c = "7" -> 7
      [] c = "8" -> 8 [] c = "9" -> 9

RECURSIVE DigitsVal(_)
DigitsVal(s) ==
    IF s = <<>> THEN 0
    ELSE 10 * DigitsVal(SubSeq(s, 1, Len(s) - 1)) + DigitVal(s[Len(s)])

\* Floats are counted in thousandths: the model's decimal strings carry at
\* most three decimals (a fourth and later ones are outside the model).
Scale == 1000

FracVal(f) ==
    CASE Len(f) = 0 -> 0
      [] Len(f) = 1 -> 100 * DigitsVal(f)
      [] Len(f) = 2 -> 10 * DigitsVal(f)
      [] OTHER -> DigitsVal(SubSeq(f, 1, 3))

AllDigits(s) == \A i \in 1..Len(s) : s[i] \in Digits

\* float(s) for a plain decimal literal: digits, at most one point, at
\* least one digit.  Anything else raises ValueError.
FloatOk(s) ==
    LET parts == Split(s, ".") IN
        /\ Len(parts) \in {1, 2}
        /\ \A i \in 1..Len(parts) : AllDigits(parts[i])
        /\ \E i \in 1..Len(parts) : parts[i] # <<>>

Float(s) ==
    LET parts == Split(s, ".") IN
        Scale * DigitsVal(parts[1])
            + (IF Len(parts) = 2 THEN FracVal(parts[2]) ELSE 0)

\* str(x) of a float the model can hold: "50.0", "0.5", "0.001"
FracStr(n) ==
    IF n % 100 = 0 THEN <<ToString(n \div 100)>>
    ELSE IF n % 10 = 0 THEN <<ToString(n \div 100), ToString((n \div 10) % 10)>>
    ELSE <<ToString(n \div 100), ToString((n \div 10) % 10), ToString(n % 10)>>

FloatStr(x) == <<ToString(x \div Scale), ".">> \o FracStr(x % Scale)

\* dict.get(key, default)
Get(d, k, dflt) == IF k \in DOMAIN d THEN d[k] ELSE dflt

EmptyDict == [k \in {} |-> 0]

(***************************************************************************)
(* The state.                                                              *)
(***************************************************************************)
VARIABLES
    API_KEY,         \* env.get("API_KEY"), Absent when missing
    API_SECRET,      \* env.get("SECRET_KEY")
    API_PASSPHRASE,  \* env.get("PASSPHRASE")
    phase,           \* the process: "loaded", "serving" or "exited"
    console,         \* what the process has printed, line by line
    inv,             \* inv[p]: the tool invocation in slot p
    sg,              \* the signer applied to two input tuples (SpecSign)
    account          \* the exchange's available balance per currency (SpecConc)

vars == <<API_KEY, API_SECRET, API_PASSPHRASE, phase, console, inv, sg, account>>

creds == <<API_KEY, API_SECRET, API_PASSPHRASE>>

\* The values key.env can hold.
KeyValue == <<"key-1">>
SecretValue == <<"secret-1">>
PassValue == <<"pass-1">>

(***************************************************************************)
(* Results of a call that may raise.                                       *)
(***************************************************************************)
Ok(v) == [ok |-> TRUE, val |-> v]

Raised(exc, msg) == [ok |-> FALSE, exc |-> exc, msg |-> msg]

(***************************************************************************)
(* Clock source and signer.                                                *)
(***************************************************************************)
TwoDigits(n) == IF n < 10 THEN <<"0", ToString(n)>> ELSE <<ToString(n)>>

ThreeDigits(n) ==
    IF n < 10 THEN <<"0", "0", ToString(n)>>
    ELSE IF n < 100 THEN <<"0", ToString(n)>>
    ELSE <<ToString(n)>>

\* The 'ts' of the time endpoint (epoch milliseconds, here within the first
\* minute of the epoch) as '%Y-%m-%dT%H:%M:%S.%f' cut to milliseconds + 'Z'.
FormatServerTime(ts) ==
    <<"1970-01-01T00:00:">> \o TwoDigits((ts \div 1000) % 60) \o <<".">>
        \o ThreeDigits(ts % 1000) \o <<"Z">>

ServerTs == 0..MaxTs

\* HMAC-SHA256 and base64, each taken as injective.
HmacSha256(key, message) == [key |-> key, message |-> message]

B64Encode(digest) == [b64 |-> digest]

SignedMessage(timestamp, method, request_path, body) ==
    timestamp \o Upper(method) \o request_path \o body

SignWith(secret, timestamp, method, request_path, body) ==
    B64Encode(HmacSha256(secret, SignedMessage(timestamp, method, request_path, body)))

get_okx_signature(timestamp, method, request_path, body) ==
    IF ~Truthy(API_SECRET)
    THEN Raised("ValueError", <<"API_SECRET not found in environment variables.">>)
    ELSE Ok(SignWith(API_SECRET, timestamp, method, request_path, body))

\* The tools always pass a timestamp that get_okx_server_time returned, which
\* is never empty, so the "if not timestamp" fetch of line 50 is not taken.
get_okx_headers(method, request_path, body, timestamp) ==
    IF ~Truthy(API_KEY) \/ ~Truthy(API_PASSPHRASE)
    THEN Raised("ValueError",
                <<"API_KEY or API_PASSPHRASE not found in environment variables.">>)
    ELSE LET signature == get_okx_signature(timestamp, method, request_path, body) IN
         IF ~signature.ok THEN signature
         ELSE Ok([Content_Type |-> "application/json",
                  OK_ACCESS_KEY |-> API_KEY,
                  OK_ACCESS_SIGN |-> signature.val,
                  OK_ACCESS_TIMESTAMP |-> timestamp,
                  OK_ACCESS_PASSPHRASE |-> API_PASSPHRASE,
                  x_simulated_trading |-> "0"])

(***************************************************************************)
(* Requests and the invocation's trace of what it did to the outside.      *)
(***************************************************************************)
GET == <<"G", "E", "T">>
POST == <<"P", "O", "S", "T">>

TimePath == <<"/api/v5/public/time">>
BalancePath == <<"/api/v5/account/balance">>
OrderPath == <<"/api/v5/trade/order">>

TickerPath(instId) == <<"/api/v5/market/ticker?instId=">> \o instId

KlinePath(instId, bar) ==
    <<"/api/v5/market/candles?instId=">> \o instId \o <<"&bar=">> \o bar

NoHeaders == EmptyDict

\* a request as sent, and how its round trip ended
Request(method, path, headers, body, outcome) ==
    [ev |-> "request", method |-> method, path |-> path,
     headers |-> headers, body |-> body, outcome |-> outcome]

ElicitCall(message) == [ev |-> "elicit", message |-> message]

ElicitReply(result) == [ev |-> "answer", result |-> result]

\* how a network round trip can fail: no response, or a non-2xx status
NetFailures == {"network_error", "http_error"}

NetError(outcome) ==
    IF outcome = "network_error"
    THEN Raised("httpx.RequestError", <<"request failed">>)
    ELSE Raised("httpx.HTTPStatusError", <<"non-2xx response">>)

(***************************************************************************)
(* What the host and the outside world can send in.                        *)
(***************************************************************************)
BTC == <<"BTC">>
USDT == <<"USDT">>

\* one separator, none, two
InstIds == {<<"BTC", "-", "USDT">>, <<"BTCUSDT">>, <<"BTC", "-", "USDT", "-", "SWAP">>}

Sides == {"buy", "sell", "BUY"}

\* "1", "1.5", and a size float() rejects
Sizes == {<<"1">>, <<"1", ".", "5">>, <<"a", "b", "c">>}

\* the schema's default "0.001", and a size above every balance of the model
NewSizes == {<<"0", ".", "0", "0", "1">>, <<"3">>}

Bars == {<<"1H">>}

Detail(ccy, availBal) == [ccy |-> ccy, availBal |-> availBal]

\* Bodies the balance endpoint can answer with a 2xx status.
BalanceResponses ==
    { [code |-> "0", data |-> << [details |-> <<Detail(BTC, <<"1">>), Detail(USDT, <<"2">>)>>] >>],
      [code |-> "0", data |-> << [details |-> <<Detail(BTC, <<"2">>), Detail(USDT, <<"1">>)>>] >>],
      [code |-> "0", data |-> << [details |-> <<Detail(USDT, <<"1">>), Detail(USDT, <<"2">>),
                                                [ccy |-> BTC]>>] >>],
      [code |-> "0", data |-> << [details |-> <<>>] >>],
      [code |-> "0", data |-> << [totalEq |-> "0"] >>],
      [code |-> "0", data |-> <<>>],
      [code |-> "1"] }

TickerResponses == {[code |-> "0", data |-> "ticker"]}

KlineResponses == {[code |-> "0", data |-> "candles"]}

\* placed, and refused by the exchange with a 2xx status
OrderResponses == {[code |-> "0", data |-> "ordId"], [code |-> "1", data |-> "sCode"]}

\* OrderElicitation
OrderElicitation(tryAgain, newSize) == [tryAgain |-> tryAgain, newSize |-> newSize]

NoData == OrderElicitation(FALSE, <<>>)

\* What ctx.elicit can return: the action, and the data when there is some.
ElicitResults ==
    { [action |-> "accept", hasData |-> TRUE, data |-> OrderElicitation(t, n)] :
          t \in BOOLEAN, n \in NewSizes }
    \cup { [action |-> a, hasData |-> FALSE, data |-> NoData] :
          a \in {"accept", "decline", "cancel"} }

NoCall ==
    [tool |-> "none", instId |-> <<>>, bar |-> <<>>, side |-> "none", sz |-> <<>>,
     ordType |-> "none", tdMode |-> "none", ctx |-> FALSE]

ToolCall(tool, instId, bar) == [NoCall EXCEPT !.tool = tool, !.instId = instId, !.bar = bar]

\* The calls the host can make; ordType and tdMode at their defaults.
Calls ==
    {ToolCall("get_balance", <<>>, <<>>)}
    \cup {ToolCall("get_ticker", i, <<>>) : i \in InstIds}
    \cup {ToolCall("get_kline", i, b) : i \in InstIds, b \in Bars}
    \cup { [tool |-> "create_order", instId |-> i, bar |-> <<>>, side |-> sd, sz |-> z,
            ordType |-> "market", tdMode |-> "cash", ctx |-> c] :
              i \in InstIds, sd \in Sides, z \in Sizes, c \in BOOLEAN }

(***************************************************************************)
(* One invocation.                                                         *)
(***************************************************************************)
NoResult == [kind |-> "none"]

ReturnJson(response) == [kind |-> "json", json |-> response]

ReturnText(text) == [kind |-> "text", text |-> text]

Raise(e) == [kind |-> "raise", exc |-> e.exc, msg |-> e.msg]

Idle ==
    [pc |-> "idle", call |-> NoCall, sz |-> <<>>,
     timestamp_balance |-> <<>>, timestamp |-> <<>>, headers |-> NoHeaders,
     balance_data |-> EmptyDict, ccy |-> <<>>, available |-> 0, compared |-> FALSE,
     body_str |-> <<>>, trace |-> <<>>, result |-> NoResult]

\* The tool's first statement awaits get_okx_server_time.
Begin(call) ==
    [Idle EXCEPT !.call = call, !.sz = call.sz,
                 !.pc = IF call.tool = "create_order" THEN "time_balance" ELSE "time"]

Finish(r, result) == [r EXCEPT !.pc = "done", !.result = result]

Sent(r, request) == [r EXCEPT !.trace = Append(@, request)]

\* a client that makes the failed request again
OnNetFailureRetry(r, outcome) == [r EXCEPT !.trace = r.trace]

\* The client raises out of "async with"; no caller catches it.
OnNetFailure(r, outcome) == Finish(r, Raise(NetError(outcome)))

(***************************************************************************)
(* create_order, the code between its awaits.                              *)
(***************************************************************************)
\* json.dumps of the order's body_dict, keys in insertion order
JsonDumps(body_dict) ==
    <<"{\"instId\": \"">> \o body_dict.instId
        \o <<"\", \"tdMode\": \"", body_dict.tdMode,
             "\", \"side\": \"", body_dict.side,
             "\", \"ordType\": \"", body_dict.ordType,
             "\", \"sz\": \"">> \o body_dict.sz \o <<"\"}">>

\* a body whose size is kept in one place for all running workflows
OrderBodyShared(r) ==
    LET orders == {q \in Procs : inv[q].call.tool = "create_order"}
        last == CHOOSE q \in orders : \A x \in orders : x <= q
    IN  JsonDumps([instId |-> r.call.instId, tdMode |-> r.call.tdMode, side |-> r.call.side,
                   ordType |-> r.call.ordType, sz |-> inv[last].sz])

OrderBody(r) ==
    JsonDumps([instId |-> r.call.instId, tdMode |-> r.call.tdMode, side |-> r.call.side,
               ordType |-> r.call.ordType, sz |-> r.sz])

\* a choice that takes "BUY" and "Buy" for a purchase too
CheckedCcyAnyCase(side, base_ccy, quote_ccy) ==
    IF side \in {"buy", "BUY", "Buy"} THEN quote_ccy ELSE base_ccy

\* ccy = quote_ccy if side == 'buy' else base_ccy
CheckedCcy(side, base_ccy, quote_ccy) == IF side = "buy" THEN quote_ccy ELSE base_ccy

RECURSIVE FirstAvailable(_, _)
\* the loop of lines 132-135: the first entry of that currency decides
FirstAvailable(details, ccy) ==
    IF details = <<>> THEN 0
    ELSE LET acc == Head(details) IN
         IF "ccy" \in DOMAIN acc /\ acc.ccy = ccy
         THEN (IF "availBal" \in DOMAIN acc THEN Float(acc.availBal) ELSE 0)
         ELSE FirstAvailable(Tail(details), ccy)

\* balance_data.get('data', [{}])[0].get('details', [])
AvailableBalance(balance_data, ccy) ==
    LET data == Get(balance_data, "data", <<EmptyDict>>) IN
        IF Len(data) = 0
        THEN Raised("IndexError", <<"list index out of range">>)
        ELSE Ok(FirstAvailable(Get(data[1], "details", <<>>), ccy))

\* a comparison that also refuses a size equal to the balance
InsufficientOrEqual(sz, available) == Float(sz) >= available

\* a comparison that lets a size pass up to one unit above the balance
InsufficientLax(sz, available) == Float(sz) > available + Scale

\* if float(sz) > available
Insufficient(sz, available) == Float(sz) > available

\* The texts are the source's Chinese ones in English; the "[CANCELLED]" and
\* "[FAILED]" prefixes and the interpolated values are the source's.
ElicitMessage(ccy, available, sz) ==
    <<"balance of ">> \o ccy \o <<" is ">> \o FloatStr(available)
        \o <<", size ">> \o sz \o <<" exceeds it, try a smaller size?">>

\* a cancellation message without the marker
CancelledTextUnmarked == <<"insufficient balance, order cancelled">>

CancelledText == <<"[CANCELLED]", " insufficient balance, order cancelled">>

FailedText(ccy, available) ==
    <<"[FAILED]", " insufficient balance, available ">> \o ccy \o <<" is ">>
        \o FloatStr(available)

\* lines 150-159: build the body, then await the server time for the POST
ToSubmission(r) == [r EXCEPT !.body_str = OrderBody(r), !.pc = "time_order"]

\* without a collaborator, falls back to the schema's default size
OnInsufficientGuess(r) ==
    IF r.call.ctx
    THEN [r EXCEPT !.pc = "elicit",
                   !.trace = Append(@, ElicitCall(ElicitMessage(r.ccy, r.available, r.sz)))]
    ELSE ToSubmission([r EXCEPT !.sz = <<"0", ".", "0", "0", "1">>])

\* lines 138-148: the balance does not cover the size
OnInsufficient(r) ==
    IF r.call.ctx
    THEN [r EXCEPT !.pc = "elicit",
                   !.trace = Append(@, ElicitCall(ElicitMessage(r.ccy, r.available, r.sz)))]
    ELSE Finish(r, ReturnText(FailedText(r.ccy, r.available)))

\* lines 129-148, with the balance response in hand
AfterBalance(r0, balance_data) ==
    LET r == [r0 EXCEPT !.balance_data = balance_data]
        parts == Split(r.call.instId, "-") IN
    IF Len(parts) # 2
    THEN Finish(r, Raise(Raised("ValueError", <<"cannot unpack instId.split('-')">>)))
    ELSE LET ccy == CheckedCcy(r.call.side, parts[1], parts[2])
             available == AvailableBalance(balance_data, ccy)
         IN  IF ~available.ok THEN Finish(r, Raise(available))
             ELSE IF ~FloatOk(r.sz)
             THEN Finish([r EXCEPT !.ccy = ccy, !.available = available.val],
                         Raise(Raised("ValueError", <<"could not convert string to float">>)))
             ELSE LET checked == [r EXCEPT !.ccy = ccy, !.available = available.val,
                                           !.compared = TRUE] IN
                  IF Insufficient(r.sz, available.val)
                  THEN OnInsufficient(checked)
                  ELSE ToSubmission(checked)

\* an acceptance test that looks at the action alone
ElicitAcceptedAnyAccept(result) == result.action = "accept"

\* result.action == "accept" and result.data and result.data.tryAgain
ElicitAccepted(result) ==
    result.action = "accept" /\ result.hasData /\ result.data.tryAgain

\* a resumption that drops the collaborator's size
ResumeKeepingSize(r, newSize) == ToSubmission(r)

\* a resumption that goes back to the balance check with the new size
ResumeRecheck(r, newSize) == [r EXCEPT !.sz = newSize, !.pc = "time_balance"]

\* sz = result.data.newSize, then straight on to the submission
Resume(r, newSize) == ToSubmission([r EXCEPT !.sz = newSize])

\* a workflow that reports a refused negotiation as [FAILED]
AfterElicitFails(r, result) ==
    LET answered == [r EXCEPT !.trace = Append(@, ElicitReply(result))] IN
    IF ElicitAccepted(result)
    THEN Resume(answered, result.data.newSize)
    ELSE Finish(answered, ReturnText(FailedText(r.ccy, r.available)))

\* lines 143-146, with the collaborator's answer in hand
AfterElicit(r, result) ==
    LET answered == [r EXCEPT !.trace = Append(@, ElicitReply(result))] IN
    IF ElicitAccepted(result)
    THEN Resume(answered, result.data.newSize)
    ELSE Finish(answered, ReturnText(CancelledText))

(***************************************************************************)
(* The signed request an invocation is about to make.                      *)
(***************************************************************************)
RequestMethod(r) == IF r.pc = "time_order" THEN POST ELSE GET

RequestPath(r) ==
    CASE r.call.tool = "get_balance" -> BalancePath
      [] r.call.tool = "get_ticker" -> TickerPath(r.call.instId)
      [] r.call.tool = "get_kline" -> KlinePath(r.call.instId, r.call.bar)
      [] OTHER -> IF r.pc = "time_order" THEN OrderPath ELSE BalancePath

\* a signer that is never given the body
RequestBodyEmpty(r) == <<>>

RequestBody(r) == IF r.pc = "time_order" THEN r.body_str ELSE <<>>

\* a workflow that skips the balance GET
AfterTimeNoCheck(pc) ==
    CASE pc = "time" -> "get"
      [] pc = "time_balance" -> "post_order"
      [] pc = "time_order" -> "post_order"

AfterTime(pc) ==
    CASE pc = "time" -> "get"
      [] pc = "time_balance" -> "get_balance"
      [] pc = "time_order" -> "post_order"

\* a workflow that signs its order with the timestamp of its balance GET
WithTimestampReuse(r, timestamp) ==
    LET stamped == IF r.pc = "time_balance"
                   THEN [r EXCEPT !.timestamp_balance = timestamp]
                   ELSE [r EXCEPT !.timestamp = timestamp]
        headers == get_okx_headers(RequestMethod(r), RequestPath(r), RequestBody(r),
                                   IF r.pc = "time_order" THEN r.timestamp_balance
                                   ELSE timestamp)
    IN  IF ~headers.ok THEN Finish(stamped, Raise(headers))
        ELSE [stamped EXCEPT !.headers = headers.val, !.pc = AfterTime(r.pc)]

\* timestamp = await get_okx_server_time(); headers = await get_okx_headers(...)
WithTimestamp(r, timestamp) ==
    LET stamped == IF r.pc = "time_balance"
                   THEN [r EXCEPT !.timestamp_balance = timestamp]
                   ELSE [r EXCEPT !.timestamp = timestamp]
        headers == get_okx_headers(RequestMethod(r), RequestPath(r), RequestBody(r),
                                   timestamp)
    IN  IF ~headers.ok THEN Finish(stamped, Raise(headers))
        ELSE [stamped EXCEPT !.headers = headers.val, !.pc = AfterTime(r.pc)]

Responses(tool) ==
    CASE tool = "get_balance" -> BalanceResponses
      [] tool = "get_ticker" -> TickerResponses
      [] tool = "get_kline" -> KlineResponses

(***************************************************************************)
(* Actions.                                                                *)
(***************************************************************************)
InFlight == {q \in Procs : inv[q].pc # "idle"}

\* print("API_KEY:", API_KEY): None prints as "None"
PrintLine(label, value) == <<label, " ">> \o (IF value = Absent THEN <<"None">> ELSE value)

Banner ==
    << <<"Hello from mcp-server-demo!">>,
       PrintLine("API_KEY:", API_KEY),
       PrintLine("API_SECRET:", API_SECRET),
       PrintLine("API_PASSPHRASE:", API_PASSPHRASE) >>

\* python main.py: main() prints and the process ends
StartMain ==
    /\ phase = "loaded"
    /\ console' = console \o Banner
    /\ phase' = "exited"
    /\ UNCHANGED <<creds, inv, sg, account>>

\* python main.py run: the same lines, then app.run(transport='sse')
StartRun ==
    /\ phase = "loaded"
    /\ console' = console \o << <<"Starting OKX MCP Server via SSE...">> >> \o Banner
    /\ phase' = "serving"
    /\ UNCHANGED <<creds, inv, sg, account>>

\* imported by a host that serves `app` itself: __name__ is not "__main__"
StartImported ==
    /\ phase = "loaded"
    /\ phase' = "serving"
    /\ UNCHANGED <<creds, console, inv, sg, account>>

\* The host dispatches a tool call.  Under Spec it runs the invocations one
\* after another, in any slot.
Invoke(p) ==
    /\ phase = "serving"
    /\ inv[p].pc = "idle"
    /\ InFlight = {}
    /\ \E call \in Calls : inv' = [inv EXCEPT ![p] = Begin(call)]
    /\ UNCHANGED <<creds, phase, console, sg, account>>

\* get_okx_server_time, then the headers of the request it is fetched for; the
\* trace keeps the ts the endpoint answered
GetServerTime(p) ==
    /\ inv[p].pc \in {"time", "time_balance", "time_order"}
    /\ LET r == inv[p]
           req(outcome) == Request(GET, TimePath, NoHeaders, <<>>, outcome)
       IN  \/ \E outcome \in NetFailures :
                  inv' = [inv EXCEPT ![p] = OnNetFailure(Sent(r, req(outcome)), outcome)]
           \/ \E ts \in ServerTs :
                  inv' = [inv EXCEPT ![p] =
                             WithTimestamp(Sent(r, req("ok") @@ [ts |-> ts]),
                                           FormatServerTime(ts))]
    /\ UNCHANGED <<creds, phase, console, sg, account>>

\* the signed GET of get_balance, get_ticker and get_kline
SignedGet(p) ==
    /\ inv[p].pc = "get"
    /\ LET r == inv[p]
           req(outcome) == Request(GET, RequestPath(r), r.headers, <<>>, outcome)
       IN  \/ \E outcome \in NetFailures :
                  inv' = [inv EXCEPT ![p] = OnNetFailure(Sent(r, req(outcome)), outcome)]
           \/ \E response \in Responses(r.call.tool) :
                  inv' = [inv EXCEPT ![p] =
                             Finish(Sent(r, req("ok")), ReturnJson(response))]
    /\ UNCHANGED <<creds, phase, console, sg, account>>

\* create_order: the balance GET and the check that follows it
CheckBalance(p) ==
    /\ inv[p].pc = "get_balance"
    /\ LET r == inv[p]
           req(outcome) == Request(GET, BalancePath, r.headers, <<>>, outcome)
       IN  \/ \E outcome \in NetFailures :
                  inv' = [inv EXCEPT ![p] = OnNetFailure(Sent(r, req(outcome)), outcome)]
           \/ \E balance_data \in BalanceResponses :
                  inv' = [inv EXCEPT ![p] = AfterBalance(Sent(r, req("ok")), balance_data)]
    /\ UNCHANGED <<creds, phase, console, sg, account>>

\* create_order: ctx.elicit returns
ElicitAnswer(p) ==
    /\ inv[p].pc = "elicit"
    /\ \E result \in ElicitResults :
           inv' = [inv EXCEPT ![p] = AfterElicit(inv[p], result)]
    /\ UNCHANGED <<creds, phase, console, sg, account>>

\* create_order: ctx.elicit raises (the client cannot answer); nothing catches it
ElicitRaises(p) ==
    /\ inv[p].pc = "elicit"
    /\ inv' = [inv EXCEPT ![p] =
                  Finish(inv[p], Raise(Raised("McpError", <<"elicitation failed">>)))]
    /\ UNCHANGED <<creds, phase, console, sg, account>>

\* create_order: the order POST
PostOrder(p) ==
    /\ inv[p].pc = "post_order"
    /\ LET r == inv[p]
           req(outcome) == Request(POST, OrderPath, r.headers, r.body_str, outcome)
       IN  \/ \E outcome \in NetFailures :
                  inv' = [inv EXCEPT ![p] = OnNetFailure(Sent(r, req(outcome)), outcome)]
           \/ \E response \in OrderResponses :
                  inv' = [inv EXCEPT ![p] =
                             Finish(Sent(r, req("ok")), ReturnJson(response))]
    /\ UNCHANGED <<creds, phase, console, sg, account>>

\* the host takes the result; nothing of the invocation survives it
Return(p) ==
    /\ inv[p].pc = "done"
    /\ inv' = [inv EXCEPT ![p] = Idle]
    /\ UNCHANGED <<creds, phase, console, sg, account>>

SgIdle == [pc |-> "idle"]

\* Under Spec the exchange's ledger is not followed: it may answer anything.
NoAccount == EmptyDict

\* load_dotenv / dotenv_values: each credential present or missing
Init ==
    /\ API_KEY \in {Absent, KeyValue}
    /\ API_SECRET \in {Absent, SecretValue}
    /\ API_PASSPHRASE \in {Absent, PassValue}
    /\ phase = "loaded"
    /\ console = <<>>
    /\ inv = [p \in Procs |-> Idle]
    /\ sg = SgIdle
    /\ account = NoAccount

Next ==
    \/ StartMain
    \/ StartRun
    \/ StartImported
    \/ \E p \in Procs :
        \/ Invoke(p)
        \/ GetServerTime(p)
        \/ SignedGet(p)
        \/ CheckBalance(p)
        \/ ElicitAnswer(p)
        \/ ElicitRaises(p)
        \/ PostOrder(p)
        \/ Return(p)

Spec == Init /\ [][Next]_vars

\* Every request in flight is answered and every ctx.elicit returns or raises:
\* an invocation that waits at an await is resumed.
Resumed(p) ==
    \/ GetServerTime(p)
    \/ SignedGet(p)
    \/ CheckBalance(p)
    \/ ElicitAnswer(p)
    \/ ElicitRaises(p)
    \/ PostOrder(p)

SpecLive == Init /\ [][Next]_vars /\ \A p \in Procs : WF_vars(Resumed(p))

(***************************************************************************)
(* The signer on its own: get_okx_signature applied to two input tuples    *)
(* under one secret.                                                       *)
(***************************************************************************)
SignInputs ==
    [timestamp : {FormatServerTime(ts) : ts \in ServerTs},
     method : {GET, POST, <<"g", "e", "t">>, <<"G", "e", "t">>},
     request_path : {BalancePath, OrderPath},
     body : {<<>>, <<"{", "}">>}]

SignatureOf(x) == get_okx_signature(x.timestamp, x.method, x.request_path, x.body)

InitSign ==
    /\ API_KEY = KeyValue
    /\ API_SECRET = SecretValue
    /\ API_PASSPHRASE = PassValue
    /\ phase = "loaded"
    /\ console = <<>>
    /\ inv = [p \in Procs |-> Idle]
    /\ \E a \in SignInputs, b \in SignInputs : sg = [pc |-> "inputs", a |-> a, b |-> b]
    /\ account = NoAccount

SignBoth ==
    /\ sg.pc = "inputs"
    /\ sg' = [pc |-> "signed", a |-> sg.a, b |-> sg.b,
              sig_a |-> SignatureOf(sg.a), sig_b |-> SignatureOf(sg.b)]
    /\ UNCHANGED <<creds, phase, console, inv, account>>

NextSign == SignBoth

SpecSign == InitSign /\ [][NextSign]_vars

(***************************************************************************)
(* Invocations that overlap, against an exchange that keeps the account:   *)
(* the tool coroutines run on one event loop and interleave at their       *)
(* awaits.  At most two invocations are followed, and their results are    *)
(* kept to be read.                                                        *)
(***************************************************************************)
\* the account when the server starts: 1 BTC, and 1 or 2 USDT
Accounts ==
    {[c \in {BTC, USDT} |-> IF c = BTC THEN Scale ELSE u * Scale] : u \in {1, 2}}

\* what GET /api/v5/account/balance answers for an account
BalanceOf(acct) ==
    [code |-> "0",
     data |-> << [details |-> <<Detail(BTC, FloatStr(acct[BTC])),
                                Detail(USDT, FloatStr(acct[USDT]))>>] >>]

\* a spot market order spends the quote currency when buying, the base when selling
SpentCcy(call) ==
    LET parts == Split(call.instId, "-") IN
    IF call.side = "buy" THEN parts[2] ELSE parts[1]

\* the exchange fills an order the account covers and refuses any other
Covers(acct, call, sz) == Float(sz) <= acct[SpentCcy(call)]

Fill(acct, call, sz) == [acct EXCEPT ![SpentCcy(call)] = @ - Float(sz)]

Placed == [code |-> "0", data |-> "ordId"]

Refused == [code |-> "1", data |-> "sCode"]

CallsConc ==
    {ToolCall("get_balance", <<>>, <<>>),
     ToolCall("get_ticker", <<"BTC", "-", "USDT">>, <<>>)}
    \cup { [tool |-> "create_order", instId |-> <<"BTC", "-", "USDT">>, bar |-> <<>>,
            side |-> "buy", sz |-> z, ordType |-> "market", tdMode |-> "cash", ctx |-> c] :
              z \in {<<"1">>, <<"1", ".", "5">>}, c \in BOOLEAN }
    \cup { [tool |-> "create_order", instId |-> <<"BTC", "-", "USDT">>, bar |-> <<>>,
            side |-> "sell", sz |-> <<"1">>, ordType |-> "market", tdMode |-> "cash",
            ctx |-> FALSE] }

InitConc ==
    /\ API_KEY = KeyValue
    /\ API_SECRET = SecretValue
    /\ API_PASSPHRASE = PassValue
    /\ phase = "loaded"
    /\ console = <<>>
    /\ inv = [p \in Procs |-> Idle]
    /\ sg = SgIdle
    /\ account \in Accounts

\* the host dispatches a call while another may be waiting at an await
InvokeConc(p) ==
    /\ phase = "serving"
    /\ inv[p].pc = "idle"
    /\ Cardinality(InFlight) <= 1
    /\ \E call \in CallsConc : inv' = [inv EXCEPT ![p] = Begin(call)]
    /\ UNCHANGED <<creds, phase, console, sg, account>>

\* the signed GET of a reading tool; the balance is the account's
SignedGetConc(p) ==
    /\ inv[p].pc = "get"
    /\ LET r == inv[p]
           req(outcome) == Request(GET, RequestPath(r), r.headers, <<>>, outcome)
       IN  \/ \E outcome \in NetFailures :
                  inv' = [inv EXCEPT ![p] = OnNetFailure(Sent(r, req(outcome)), outcome)]
           \/ \E response \in (IF r.call.tool = "get_balance" THEN {BalanceOf(account)}
                                 ELSE Responses(r.call.tool)) :
                  inv' = [inv EXCEPT ![p] =
                             Finish(Sent(r, req("ok")), ReturnJson(response))]
    /\ UNCHANGED <<creds, phase, console, sg, account>>

\* create_order: the balance GET, answered from the account as it is now
CheckBalanceConc(p) ==
    /\ inv[p].pc = "get_balance"
    /\ LET r == inv[p]
           req(outcome) == Request(GET, BalancePath, r.headers, <<>>, outcome)
       IN  \/ \E outcome \in NetFailures :
                  inv' = [inv EXCEPT ![p] = OnNetFailure(Sent(r, req(outcome)), outcome)]
           \/ inv' = [inv EXCEPT ![p] = AfterBalance(Sent(r, req("ok")), BalanceOf(account))]
    /\ UNCHANGED <<creds, phase, console, sg, account>>

\* create_order: the order POST, filled or refused against the account as it is now
PostOrderConc(p) ==
    /\ inv[p].pc = "post_order"
    /\ LET r == inv[p]
           req(outcome) == Request(POST, OrderPath, r.headers, r.body_str, outcome)
       IN  \/ /\ \E outcome \in NetFailures :
                    inv' = [inv EXCEPT ![p] = OnNetFailure(Sent(r, req(outcome)), outcome)]
              /\ UNCHANGED account
           \/ /\ Covers(account, r.call, r.sz)
              /\ inv' = [inv EXCEPT ![p] = Finish(Sent(r, req("ok")), ReturnJson(Placed))]
              /\ account' = Fill(account, r.call, r.sz)
           \/ /\ ~Covers(account, r.call, r.sz)
              /\ inv' = [inv EXCEPT ![p] = Finish(Sent(r, req("ok")), ReturnJson(Refused))]
              /\ UNCHANGED account
    /\ UNCHANGED <<creds, phase, console, sg>>

NextConc ==
    \/ StartRun
    \/ \E p \in Procs :
        \/ InvokeConc(p)
        \/ GetServerTime(p)
        \/ SignedGetConc(p)
        \/ CheckBalanceConc(p)
        \/ ElicitAnswer(p)
        \/ ElicitRaises(p)
        \/ PostOrderConc(p)

SpecConc == InitConc /\ [][NextConc]_vars

(***************************************************************************)
(* Reading an invocation's trace.                                          *)
(***************************************************************************)
IsRequest(e) == e.ev = "request"

IsTimeGet(e) == IsRequest(e) /\ e.method = GET /\ e.path = TimePath

IsBalanceGet(e) == IsRequest(e) /\ e.method = GET /\ e.path = BalancePath

IsOrderPost(e) == IsRequest(e) /\ e.method = POST /\ e.path = OrderPath

IsSigned(e) == IsRequest(e) /\ e.headers # NoHeaders

IsElicit(e) == e.ev = "elicit"

IsAnswer(e) == e.ev = "answer"

Failed(e) == IsRequest(e) /\ e.outcome # "ok"

Count(t, P(_)) == Cardinality({i \in 1..Len(t) : P(t[i])})

NoFailure(t) == \A i \in 1..Len(t) : ~Failed(t[i])

Contains(text, part) ==
    \E i \in 1..(Len(text) - Len(part) + 1) : SubSeq(text, i, i + Len(part) - 1) = part

\* the JSON body an order of this call has with size sz
BodyWithSize(call, sz) ==
    <<"{\"instId\": \"">> \o call.instId
        \o <<"\", \"tdMode\": \"", call.tdMode, "\", \"side\": \"", call.side,
             "\", \"ordType\": \"", call.ordType, "\", \"sz\": \"">> \o sz \o <<"\"}">>

IsOrder(r) == r.call.tool = "create_order"

\* the comparison of line 137 was made, and how it had to come out
SizeCovered(r) == IsOrder(r) /\ r.compared /\ Float(r.call.sz) <= r.available

SizeExceeds(r) == IsOrder(r) /\ r.compared /\ Float(r.call.sz) > r.available

\* the collaborator accepted, with data, tryAgain true
AcceptsNewSize(e) ==
    IsAnswer(e) /\ e.result.action = "accept" /\ e.result.hasData /\ e.result.data.tryAgain

RefusesNewSize(e) == IsAnswer(e) /\ ~AcceptsNewSize(e)

(***************************************************************************)
(* C1: when nothing fails on the network and sz <= available (equal        *)
(* included), create_order makes exactly one order POST, its body carries  *)
(* the sz of the call unchanged, and ctx.elicit is never called, with or   *)
(* without a ctx.                                                          *)
(***************************************************************************)
C1_SufficientSubmitsOriginal ==
    \A p \in Procs :
        LET r == inv[p] t == inv[p].trace IN
        SizeCovered(r) =>
            /\ Count(t, IsElicit) = 0
            /\ Count(t, IsOrderPost) <= 1
            /\ \A i \in 1..Len(t) :
                   IsOrderPost(t[i]) => t[i].body = BodyWithSize(r.call, r.call.sz)
            /\ (r.pc = "done" /\ NoFailure(t)) => Count(t, IsOrderPost) = 1

C1_Witness ==
    \E p \in Procs :
        LET r == inv[p] IN
        /\ SizeCovered(r) /\ r.pc = "done" /\ NoFailure(r.trace)
        /\ r.call.ctx
        /\ Float(r.call.sz) = r.available
        /\ Count(r.trace, IsOrderPost) = 1

\* the index of the collaborator's answer in a trace that holds one
AnswerAt(t) == CHOOSE i \in 1..Len(t) : IsAnswer(t[i])

\* what C2 promises of an invocation whose negotiation accepted a new size
SubmitsNewSizeOnce(r) ==
    LET t == r.trace a == AnswerAt(r.trace) IN
        /\ Count(t, IsOrderPost) = 1
        /\ \A i \in 1..Len(t) :
               IsOrderPost(t[i]) =>
                   t[i].body = BodyWithSize(r.call, t[a].result.data.newSize)
        /\ Count(t, IsBalanceGet) = 1
        /\ \A i \in 1..Len(t) : IsBalanceGet(t[i]) => i < a

NegotiatedNewSize(r) ==
    /\ SizeExceeds(r) /\ r.call.ctx
    /\ \E i \in 1..Len(r.trace) : AcceptsNewSize(r.trace[i])

(***************************************************************************)
(* C2 as claimed: when sz > available, a ctx is there and it answers       *)
(* accept with tryAgain true and size S', the finished invocation has made *)
(* exactly one order POST, with sz = S' verbatim, and has fetched the      *)
(* balance exactly once, before the answer.                                *)
(***************************************************************************)
C2_Original ==
    \A p \in Procs :
        (NegotiatedNewSize(inv[p]) /\ inv[p].pc = "done") => SubmitsNewSizeOnce(inv[p])

(***************************************************************************)
(* C2 as amended: the same, for the invocations whose server-time GET      *)
(* after the answer succeeds; in every state after the answer there is at  *)
(* most one order POST, it carries S', and the balance GET is the single   *)
(* one made before the answer.                                             *)
(***************************************************************************)
C2_NewSizeSubmittedUnchecked ==
    \A p \in Procs :
        LET r == inv[p] t == inv[p].trace IN
        NegotiatedNewSize(r) =>
            LET a == AnswerAt(t) IN
            /\ Count(t, IsOrderPost) <= 1
            /\ \A i \in 1..Len(t) :
                   IsOrderPost(t[i]) =>
                       t[i].body = BodyWithSize(r.call, t[a].result.data.newSize)
            /\ Count(t, IsBalanceGet) = 1
            /\ \A i \in 1..Len(t) : IsBalanceGet(t[i]) => i < a
            /\ (/\ r.pc = "done"
                /\ \E i \in (a + 1)..Len(t) : IsTimeGet(t[i]) /\ ~Failed(t[i]))
                   => Count(t, IsOrderPost) = 1

\* S' = "3" is above every balance of the model, and is still posted
C2_Witness ==
    \E p \in Procs :
        LET r == inv[p] t == inv[p].trace IN
        /\ NegotiatedNewSize(r) /\ r.pc = "done"
        /\ Float(t[AnswerAt(t)].result.data.newSize) > r.available
        /\ IsOrderPost(t[Len(t)])
        /\ t[Len(t)].body = BodyWithSize(r.call, <<"3">>)

(***************************************************************************)
(* C3: when sz > available and ctx.elicit returns anything but accept with *)
(* data and tryAgain true (decline, cancel, accept without data, accept    *)
(* with tryAgain false), create_order makes no order POST and returns the  *)
(* text that begins with "[CANCELLED]" as its result, not as an exception. *)
(***************************************************************************)
C3_RefusalCancels ==
    \A p \in Procs :
        LET r == inv[p] t == inv[p].trace IN
        (SizeExceeds(r) /\ \E i \in 1..Len(t) : RefusesNewSize(t[i])) =>
            /\ r.pc = "done"
            /\ Count(t, IsOrderPost) = 0
            /\ r.result.kind = "text"
            /\ Head(r.result.text) = "[CANCELLED]"

C3_Witness ==
    \E p \in Procs :
        LET r == inv[p] t == inv[p].trace IN
        /\ SizeExceeds(r) /\ r.pc = "done"
        /\ \E i \in 1..Len(t) :
               /\ RefusesNewSize(t[i])
               /\ t[i].result.action = "accept" /\ ~t[i].result.hasData
        /\ r.result.kind = "text"

(***************************************************************************)
(* C4: when sz > available and ctx is None, create_order makes no order    *)
(* POST, keeps sz as called, and returns a text that begins with           *)
(* "[FAILED]" and holds the checked currency and the available amount.     *)
(***************************************************************************)
C4_NoContextFails ==
    \A p \in Procs :
        LET r == inv[p]
            parts == Split(inv[p].call.instId, "-")
            ccy == IF inv[p].call.side = "buy" THEN parts[2] ELSE parts[1]
        IN  (SizeExceeds(r) /\ ~r.call.ctx) =>
                /\ r.pc = "done"
                /\ Count(r.trace, IsOrderPost) = 0
                /\ Count(r.trace, IsElicit) = 0
                /\ r.sz = r.call.sz
                /\ r.result.kind = "text"
                /\ Head(r.result.text) = "[FAILED]"
                /\ Contains(r.result.text, ccy)
                /\ Contains(r.result.text, FloatStr(r.available))

C4_Witness ==
    \E p \in Procs :
        LET r == inv[p] IN
        /\ SizeExceeds(r) /\ ~r.call.ctx /\ r.pc = "done"
        /\ r.call.side = "sell" /\ r.available = 1000
        /\ r.result.kind = "text"
        /\ Contains(r.result.text, BTC \o <<" is ", "1", ".", "0">>)

(***************************************************************************)
(* C5: in create_order the order POST is the only request that is not a    *)
(* GET; it is made only after a balance GET has completed and, when the    *)
(* collaborator was asked, after its answer; no POST has been made while   *)
(* the invocation is checking the balance or awaiting the user.            *)
(***************************************************************************)
C5_PostOnlyAfterCheckAndAnswer ==
    \A p \in Procs :
        LET r == inv[p] t == inv[p].trace IN
        IsOrder(r) =>
            /\ \A i \in 1..Len(t) :
                   (IsRequest(t[i]) /\ t[i].method # GET) => IsOrderPost(t[i])
            /\ \A i \in 1..Len(t) :
                   IsOrderPost(t[i]) =>
                       /\ \E j \in 1..(i - 1) : IsBalanceGet(t[j]) /\ ~Failed(t[j])
                       /\ \A j \in 1..Len(t) :
                              IsElicit(t[j]) =>
                                  /\ j < i
                                  /\ \E k \in (j + 1)..(i - 1) : IsAnswer(t[k])
            /\ r.pc \in {"time_balance", "get_balance", "elicit"} =>
                   Count(t, IsOrderPost) = 0

C5_Witness ==
    \E p \in Procs :
        LET t == inv[p].trace IN
        /\ IsOrder(inv[p])
        /\ Count(t, IsElicit) = 1
        /\ Count(t, IsOrderPost) = 1

(***************************************************************************)
(* C6: a create_order whose instId does not hold exactly one '-' is        *)
(* rejected before any network call: when it raises the error of the       *)
(* malformed instId it has made no request at all (no server-time GET, no  *)
(* balance GET, no order POST).  Stated with the credentials present, so   *)
(* that the error is the instId's.                                         *)
(***************************************************************************)
Malformed(instId) == Len(Split(instId, "-")) # 2

CredentialMissing == API_KEY = Absent \/ API_SECRET = Absent \/ API_PASSPHRASE = Absent

C6_MalformedRejectedBeforeNetwork ==
    \A p \in Procs :
        LET r == inv[p] IN
        (/\ IsOrder(r) /\ Malformed(r.call.instId) /\ ~CredentialMissing
         /\ r.result.kind = "raise" /\ r.result.exc = "ValueError") =>
            Count(r.trace, IsRequest) = 0

(***************************************************************************)
(* C7: a tool invoked while the key, the secret or the passphrase is       *)
(* absent raises the configuration error before any network call: when    *)
(* the error is raised the invocation has made no request, not even the    *)
(* server-time GET.                                                        *)
(***************************************************************************)
C7_ConfigErrorBeforeNetwork ==
    CredentialMissing =>
        \A p \in Procs :
            (inv[p].result.kind = "raise" /\ inv[p].result.exc = "ValueError") =>
                Count(inv[p].trace, IsRequest) = 0

(***************************************************************************)
(* C8: in every state of the process, after either start-up and after any  *)
(* tool invocations, the secret is in no line the process printed and in   *)
(* no tool result.                                                         *)
(***************************************************************************)
ShowsSecret(text) == API_SECRET # Absent /\ Contains(text, API_SECRET)

C8_SecretNeverShown ==
    /\ \A i \in 1..Len(console) : ~ShowsSecret(console[i])
    /\ \A p \in Procs :
           /\ inv[p].result.kind = "text" => ~ShowsSecret(inv[p].result.text)
           /\ inv[p].result.kind = "raise" => ~ShowsSecret(inv[p].result.msg)

(***************************************************************************)
(* C9 as claimed: under one secret, equal inputs give equal signatures,    *)
(* and two input tuples that differ in exactly one field, two methods that *)
(* differ only in letter case included, give different signatures.         *)
(***************************************************************************)
SignFields == {"timestamp", "method", "request_path", "body"}

DiffFields(a, b) == {f \in SignFields : a[f] # b[f]}

C9_Original ==
    sg.pc = "signed" =>
        /\ sg.a = sg.b => sg.sig_a = sg.sig_b
        /\ Cardinality(DiffFields(sg.a, sg.b)) = 1 => sg.sig_a # sg.sig_b

\* letter case aside
FoldChar(c) ==
    CASE c = "G" -> "g" [] c = "E" -> "e" [] c = "T" -> "t"
      [] c = "P" -> "p" [] c = "O" -> "o" [] c = "S" -> "s"
      [] OTHER -> c

SameButForCase(m1, m2) ==
    /\ Len(m1) = Len(m2)
    /\ \A i \in 1..Len(m1) : FoldChar(m1[i]) = FoldChar(m2[i])

(***************************************************************************)
(* C9 as amended: equal inputs give equal signatures, and two tuples that  *)
(* differ in exactly one field give different signatures unless that field *)
(* is the method and the two methods differ only in letter case, in which  *)
(* case the signatures are equal.                                          *)
(***************************************************************************)
C9_SignatureSensitivity ==
    sg.pc = "signed" =>
        /\ sg.sig_a.ok /\ sg.sig_b.ok
        /\ sg.a = sg.b => sg.sig_a = sg.sig_b
        /\ Cardinality(DiffFields(sg.a, sg.b)) = 1 =>
               (sg.sig_a = sg.sig_b <=>
                   (DiffFields(sg.a, sg.b) = {"method"}
                       /\ SameButForCase(sg.a.method, sg.b.method)))

C9_Witness ==
    /\ sg.pc = "signed"
    /\ DiffFields(sg.a, sg.b) = {"method"}
    /\ sg.a.method = <<"g", "e", "t">> /\ sg.b.method = GET
    /\ sg.sig_a = sg.sig_b

(***************************************************************************)
(* C10: in create_order a network step that fails (no response, or a       *)
(* non-2xx status) is the last thing the invocation does: it ends there    *)
(* with that error raised to the caller, the request is not made again, no *)
(* later step runs, and a failure of the first server-time GET or of the   *)
(* balance GET leaves no elicitation and no order POST.                    *)
(***************************************************************************)
ErrorOf(outcome) ==
    IF outcome = "network_error" THEN "httpx.RequestError" ELSE "httpx.HTTPStatusError"

C10_FailureAborts ==
    \A p \in Procs :
        LET r == inv[p] t == inv[p].trace IN
        IsOrder(r) =>
            \A i \in 1..Len(t) :
                Failed(t[i]) =>
                    /\ i = Len(t)
                    /\ r.pc = "done"
                    /\ r.result.kind = "raise"
                    /\ r.result.exc = ErrorOf(t[i].outcome)
                    /\ (IsBalanceGet(t[i]) \/ i = 1) =>
                           /\ Count(t, IsElicit) = 0
                           /\ Count(t, IsOrderPost) = 0

\* the second server-time GET fails, after a negotiation
C10_Witness ==
    \E p \in Procs :
        LET r == inv[p] t == inv[p].trace IN
        /\ IsOrder(r) /\ r.pc = "done"
        /\ Count(t, IsAnswer) = 1
        /\ Len(t) = 5 /\ IsTimeGet(t[5]) /\ Failed(t[5])
        /\ r.result.kind = "raise"

(***************************************************************************)
(* C11 as claimed: in create_order, after a balance GET that succeeded     *)
(* (well-formed instId, sz a number), the lookup of lines 131-135 does not *)
(* raise and the comparison of line 137 is made, whatever the response:    *)
(* and when the response has an empty 'data' list, a first entry without   *)
(* 'details', or no entry of the checked currency, available is 0.         *)
(***************************************************************************)
BalanceFetched(r) ==
    \E i \in 1..Len(r.trace) : IsBalanceGet(r.trace[i]) /\ ~Failed(r.trace[i])

\* the response lists an entry of that currency in data[0].details
HoldsCcy(balance_data, ccy) ==
    /\ "data" \in DOMAIN balance_data
    /\ Len(balance_data.data) > 0
    /\ "details" \in DOMAIN balance_data.data[1]
    /\ \E i \in 1..Len(balance_data.data[1].details) :
           LET acc == balance_data.data[1].details[i] IN
           "ccy" \in DOMAIN acc /\ acc.ccy = ccy

C11_AbsentBalanceIsZero ==
    \A p \in Procs :
        LET r == inv[p] IN
        (/\ IsOrder(r) /\ BalanceFetched(r)
         /\ ~Malformed(r.call.instId) /\ FloatOk(r.call.sz)) =>
            /\ r.result.kind = "raise" => r.result.exc # "IndexError"
            /\ r.compared
            /\ ~HoldsCcy(r.balance_data, r.ccy) => r.available = 0

(***************************************************************************)
(* C12: for an instId "X-Y" the currency create_order checks is Y when     *)
(* side is exactly "buy" and X for every other side ("sell", "BUY", ...),  *)
(* and the available amount it compares sz with is the availBal of the     *)
(* first entry of data[0].details whose ccy is that currency (0 when there *)
(* is none): the order is held back exactly when sz exceeds that amount.   *)
(***************************************************************************)
FirstOfCcy(details, ccy) ==
    CHOOSE i \in 1..Len(details) :
        /\ "ccy" \in DOMAIN details[i] /\ details[i].ccy = ccy
        /\ \A j \in 1..(i - 1) : ~("ccy" \in DOMAIN details[j] /\ details[j].ccy = ccy)

\* the amount the response lists first for that currency
ListedAmount(balance_data, ccy) ==
    IF ~HoldsCcy(balance_data, ccy) THEN 0
    ELSE LET details == balance_data.data[1].details
             acc == details[FirstOfCcy(details, ccy)]
         IN  IF "availBal" \in DOMAIN acc THEN Float(acc.availBal) ELSE 0

HeldBack(r) ==
    \/ Count(r.trace, IsElicit) > 0
    \/ r.result.kind = "text" /\ Contains(r.result.text, <<"[FAILED]">>)

C12_CheckedCurrencyAndAmount ==
    \A p \in Procs :
        LET r == inv[p]
            parts == Split(r.call.instId, "-")
        IN  (IsOrder(r) /\ r.compared) =>
                /\ Len(parts) = 2
                /\ r.call.side = "buy" => r.ccy = parts[2]
                /\ r.call.side # "buy" => r.ccy = parts[1]
                /\ r.available = ListedAmount(r.balance_data, r.ccy)
                /\ HeldBack(r) <=> Float(r.call.sz) > ListedAmount(r.balance_data, r.ccy)

\* side "BUY" checks the base currency; of two USDT entries the first counts
C12_Witness ==
    \E p \in Procs :
        LET r == inv[p] IN
        /\ IsOrder(r) /\ r.compared
        /\ r.call.instId = <<"BTC", "-", "USDT">>
        /\ r.call.side = "BUY" /\ r.call.sz = <<"1", ".", "5">>
        /\ r.balance_data =
               [code |-> "0",
                data |-> << [details |-> <<Detail(BTC, <<"2">>), Detail(USDT, <<"1">>)>>] >>]
        /\ r.ccy = BTC /\ r.available = 2 * Scale
        /\ r.pc = "post_order"

(***************************************************************************)
(* C13: with invocations interleaved at their awaits, every order POST of  *)
(* a workflow carries its own instId, side, ordType and tdMode and its own *)
(* size (the sz it was called with, or the size its own negotiation        *)
(* accepted); an answer of the collaborator enters only the trace of a     *)
(* workflow that was waiting for one; each step changes the local state of *)
(* one invocation only; and the credentials never change.                  *)
(***************************************************************************)
\* the sizes a workflow can post on its own account
OwnSizes(r) ==
    {r.call.sz} \cup {r.trace[i].result.data.newSize :
                          i \in {j \in 1..Len(r.trace) : AcceptsNewSize(r.trace[j])}}

BodiesAreOwn ==
    \A p \in Procs :
        LET r == inv[p] t == inv[p].trace IN
        \A i \in 1..Len(t) :
            IsOrderPost(t[i]) =>
                /\ \E s \in OwnSizes(r) : t[i].body = BodyWithSize(r.call, s)
                /\ Count(t, IsAnswer) = 0 => t[i].body = BodyWithSize(r.call, r.call.sz)
                /\ Count(t, IsAnswer) > 0 =>
                       t[i].body = BodyWithSize(r.call, t[AnswerAt(t)].result.data.newSize)

AnswersAreOwn ==
    \A p \in Procs :
        Count(inv'[p].trace, IsAnswer) > Count(inv[p].trace, IsAnswer) =>
            /\ inv[p].pc = "elicit"
            /\ IsElicit(inv[p].trace[Len(inv[p].trace)])
            /\ Count(inv'[p].trace, IsAnswer) = 1

OneInvocationPerStep ==
    \A p \in Procs : inv'[p] # inv[p] => \A q \in Procs \ {p} : inv'[q] = inv[q]

C13_NoSharedState ==
    /\ []BodiesAreOwn
    /\ [][AnswersAreOwn /\ OneInvocationPerStep /\ creds' = creds]_vars

\* one workflow has posted the size it negotiated while another, which read
\* the balance before that order was filled, is still waiting for its answer
C13_Witness ==
    \E p \in Procs, q \in Procs :
        LET r == inv[p] w == inv[q] IN
        /\ p # q
        /\ IsOrder(r) /\ r.pc = "done" /\ r.result = ReturnJson(Placed)
        /\ Count(r.trace, AcceptsNewSize) = 1
        /\ IsOrder(w) /\ w.pc = "elicit"
        /\ w.available > account[w.ccy]
        /\ w.sz # r.sz

(***************************************************************************)
(* C14: the check and the submission are not atomic.  A workflow reads the *)
(* balance once, before its order POST, and never again; so an order that  *)
(* passed the check without negotiation (sz <= the balance it read) is     *)
(* refused by the exchange only when the account has been reduced below    *)
(* that balance between its check and its POST: and such a run exists (the *)
(* witness), as does one where the account is reduced while the workflow   *)
(* waits for the collaborator's answer.                                    *)
(***************************************************************************)
PostAt(t) == CHOOSE i \in 1..Len(t) : IsOrderPost(t[i])

RefusedOrder(r) ==
    /\ IsOrder(r) /\ r.pc = "done"
    /\ r.result = ReturnJson(Refused)
    /\ IsOrderPost(r.trace[Len(r.trace)])

C14_CheckThenSubmitRace ==
    \A p \in Procs :
        LET r == inv[p] t == inv[p].trace IN
        (IsOrder(r) /\ Count(t, IsOrderPost) > 0) =>
            /\ Count(t, IsBalanceGet) = 1
            /\ \A i \in 1..Len(t) : IsBalanceGet(t[i]) => i < PostAt(t)
            /\ (RefusedOrder(r) /\ Count(t, IsElicit) = 0) =>
                   /\ Float(r.sz) <= r.available
                   /\ Float(r.sz) > account[r.ccy]
                   /\ account[r.ccy] < r.available

\* two purchases of 1 USDT against 1 USDT: both pass the check, one is filled,
\* the other is posted all the same and refused
C14_Witness ==
    \E p \in Procs, q \in Procs :
        LET r == inv[p] IN
        /\ p # q
        /\ RefusedOrder(r) /\ SizeCovered(r) /\ Count(r.trace, IsElicit) = 0
        /\ Float(r.sz) > account[r.ccy]
        /\ IsOrder(inv[q]) /\ inv[q].result = ReturnJson(Placed)
        /\ inv[q].ccy = r.ccy

(***************************************************************************)
(* C15: create_order does not loop: whatever the exchange and the          *)
(* collaborator answer, one invocation makes at most one balance GET, at   *)
(* most one call of ctx.elicit (and takes at most one answer), and at most *)
(* one order POST; its server-time GETs are at most two.                   *)
(***************************************************************************)
C15_AtMostOnce ==
    \A p \in Procs :
        LET t == inv[p].trace IN
        IsOrder(inv[p]) =>
            /\ Count(t, IsBalanceGet) <= 1
            /\ Count(t, IsElicit) <= 1
            /\ Count(t, IsAnswer) <= 1
            /\ Count(t, IsOrderPost) <= 1
            /\ Count(t, IsTimeGet) <= 2

\* the longest run: check, negotiation, submission, each once
C15_Witness ==
    \E p \in Procs :
        LET t == inv[p].trace IN
        /\ IsOrder(inv[p]) /\ inv[p].pc = "done"
        /\ Count(t, IsBalanceGet) = 1
        /\ Count(t, IsElicit) = 1
        /\ Count(t, IsAnswer) = 1
        /\ Count(t, IsOrderPost) = 1
        /\ Count(t, IsTimeGet) = 2
        /\ Len(t) = 6

(***************************************************************************)
(* C16 as claimed: every signed request carries the timestamp answered by  *)
(* the server-time GET made just before it, for it alone; the order POST   *)
(* of create_order is signed with a time fetched after the balance GET and *)
(* the negotiation; and no pair of OK-ACCESS-TIMESTAMP and OK-ACCESS-SIGN  *)
(* is carried by two requests.                                             *)
(***************************************************************************)
\* the signed requests made so far, as (slot, index in the trace)
SignedRequests ==
    UNION { {<<p, i>> : i \in {j \in 1..Len(inv[p].trace) : IsSigned(inv[p].trace[j])}} :
                p \in Procs }

PairOf(x) ==
    LET e == inv[x[1]].trace[x[2]] IN <<e.headers.OK_ACCESS_TIMESTAMP, e.headers.OK_ACCESS_SIGN>>

\* the server-time GET a signed request was made after
ClockOf(x) == inv[x[1]].trace[x[2] - 1]

OwnServerTime ==
    \A x \in SignedRequests :
        LET t == inv[x[1]].trace i == x[2] IN
        /\ i > 1 /\ IsTimeGet(t[i - 1]) /\ ~Failed(t[i - 1])
        /\ t[i].headers.OK_ACCESS_TIMESTAMP = FormatServerTime(t[i - 1].ts)
        /\ IsOrderPost(t[i]) =>
               \A j \in 1..Len(t) :
                   (IsBalanceGet(t[j]) \/ IsElicit(t[j]) \/ IsAnswer(t[j])) => j < i - 1

C16_Original ==
    /\ OwnServerTime
    /\ \A x \in SignedRequests, y \in SignedRequests : x # y => PairOf(x) # PairOf(y)

(***************************************************************************)
(* C16 as amended: the same, except that two requests do carry the same    *)
(* pair when the exchange answered the same millisecond to the server-time *)
(* GETs of both and their method, path and body are equal (two balance     *)
(* GETs, say): the code computes every pair afresh and keeps none, and     *)
(* within one invocation no pair occurs twice.                             *)
(***************************************************************************)
C16_FreshTimestampPerRequest ==
    /\ OwnServerTime
    /\ \A x \in SignedRequests, y \in SignedRequests :
           (x # y /\ PairOf(x) = PairOf(y)) =>
               LET a == inv[x[1]].trace[x[2]] b == inv[y[1]].trace[y[2]] IN
               /\ x[1] # y[1]
               /\ ClockOf(x).ts = ClockOf(y).ts
               /\ a.method = b.method /\ a.path = b.path /\ a.body = b.body

\* one workflow signed its POST with a later server time than its balance GET,
\* and its balance GET carries the very pair of another workflow's
C16_Witness ==
    \E x \in SignedRequests, y \in SignedRequests, z \in SignedRequests :
        /\ x[1] # y[1] /\ PairOf(x) = PairOf(y)
        /\ z[1] = x[1] /\ IsOrderPost(inv[z[1]].trace[z[2]])
        /\ ClockOf(z).ts # ClockOf(x).ts

(***************************************************************************)
(* C17: every signed request was signed over exactly what it sends: the    *)
(* HMAC under API_SECRET of its OK-ACCESS-TIMESTAMP header, then its       *)
(* method in upper case, then its path with the query string, then its     *)
(* body: the empty string for a GET, and for the order POST the very       *)
(* string transmitted, the serialised instId, tdMode, side, ordType, sz.   *)
(***************************************************************************)
\* the path an invocation's signed request goes to, query string included
PathSent(r, e) ==
    CASE r.call.tool = "get_ticker" -> <<"/api/v5/market/ticker?instId=">> \o r.call.instId
      [] r.call.tool = "get_kline" ->
             <<"/api/v5/market/candles?instId=">> \o r.call.instId
                 \o <<"&bar=">> \o r.call.bar
      [] r.call.tool = "create_order" /\ e.method = POST -> <<"/api/v5/trade/order">>
      [] OTHER -> <<"/api/v5/account/balance">>

C17_SignedAsSent ==
    \A p \in Procs :
        LET r == inv[p] t == inv[p].trace IN
        \A i \in 1..Len(t) :
            IsSigned(t[i]) =>
                LET e == t[i] signed == t[i].headers.OK_ACCESS_SIGN.b64 IN
                /\ signed.key = API_SECRET
                /\ signed.message =
                       e.headers.OK_ACCESS_TIMESTAMP \o e.method \o e.path \o e.body
                /\ e.method \in {GET, POST}
                /\ e.path = PathSent(r, e)
                /\ e.method = GET => e.body = <<>>
                /\ e.method = POST =>
                       /\ e.body = r.body_str
                       /\ e.body = BodyWithSize(r.call, r.sz)
                       /\ r.call.tool = "create_order"

\* an order POST after a negotiation, and before it a signed balance GET
C17_Witness ==
    \E p \in Procs :
        LET r == inv[p] t == inv[p].trace IN
        /\ IsOrder(r) /\ Len(t) = 6
        /\ IsSigned(t[2]) /\ t[2].method = GET
        /\ IsSigned(t[6]) /\ IsOrderPost(t[6]) /\ t[6].outcome = "ok"
        /\ t[6].body = BodyWithSize(r.call, <<"0", ".", "0", "0", "1">>)
        /\ t[6].headers.OK_ACCESS_TIMESTAMP # t[2].headers.OK_ACCESS_TIMESTAMP

(***************************************************************************)
(* C18: when every request is answered and every ctx.elicit returns, each  *)
(* create_order invocation comes to an end, with one outcome that then     *)
(* stands: DONE (the exchange's JSON), CANCELLED, FAILED, or an error      *)
(* raised to the caller.  On the way it moves only: from CHECKING_BALANCE  *)
(* to SUBMITTING when sz is covered, to AWAITING_USER_INPUT when it is not *)
(* and there is a ctx, to FAILED when it is not and there is none; from    *)
(* AWAITING_USER_INPUT to SUBMITTING on an accepted new size and to        *)
(* CANCELLED on any other answer; from SUBMITTING to DONE; and from any of *)
(* the three to the error.                                                 *)
(***************************************************************************)
Stage(r) ==
    CASE r.pc \in {"time_balance", "get_balance"} -> "CHECKING_BALANCE"
      [] r.pc = "elicit" -> "AWAITING_USER_INPUT"
      [] r.pc \in {"time_order", "post_order"} -> "SUBMITTING"
      [] r.pc = "done" /\ r.result.kind = "json" -> "DONE"
      [] r.pc = "done" /\ r.result.kind = "text"
             /\ Contains(r.result.text, <<"[CANCELLED]">>) -> "CANCELLED"
      [] r.pc = "done" /\ r.result.kind = "text"
             /\ Contains(r.result.text, <<"[FAILED]">>) -> "FAILED"
      [] r.pc = "done" /\ r.result.kind = "raise" -> "ERROR"
      [] OTHER -> "NONE"

Terminal == {"DONE", "CANCELLED", "FAILED", "ERROR"}

\* the last event of a trace is the collaborator's answer
LastAnswer(r) == r.trace[Len(r.trace)]

Transition(r, w) ==
    LET a == Stage(r) b == Stage(w) IN
    \/ a = b /\ a \notin Terminal
    \/ a = "NONE" /\ b = "CHECKING_BALANCE"
    \/ a = "CHECKING_BALANCE" /\ b = "SUBMITTING" /\ SizeCovered(w)
    \/ a = "CHECKING_BALANCE" /\ b = "AWAITING_USER_INPUT" /\ SizeExceeds(w) /\ w.call.ctx
    \/ a = "CHECKING_BALANCE" /\ b = "FAILED" /\ SizeExceeds(w) /\ ~w.call.ctx
    \/ a = "AWAITING_USER_INPUT" /\ b = "SUBMITTING" /\ AcceptsNewSize(LastAnswer(w))
    \/ a = "AWAITING_USER_INPUT" /\ b = "CANCELLED" /\ RefusesNewSize(LastAnswer(w))
    \/ a = "SUBMITTING" /\ b = "DONE"
    \/ a \in {"CHECKING_BALANCE", "AWAITING_USER_INPUT", "SUBMITTING"} /\ b = "ERROR"
    \/ a \in Terminal /\ w = Idle

OrderTransitions ==
    \A p \in Procs :
        (inv'[p] # inv[p] /\ (IsOrder(inv[p]) \/ IsOrder(inv'[p]))) =>
            Transition(inv[p], inv'[p])

OrderStagesKnown ==
    \A p \in Procs :
        IsOrder(inv[p]) =>
            /\ Stage(inv[p]) # "NONE"
            /\ inv[p].pc = "done" <=> Stage(inv[p]) \in Terminal

C18_Terminates ==
    /\ \A p \in Procs :
           (IsOrder(inv[p]) /\ inv[p].pc # "done") ~> (inv[p].pc = "done")
    /\ []OrderStagesKnown
    /\ [][OrderTransitions]_vars

\* a negotiation that was refused: CHECKING_BALANCE, AWAITING_USER_INPUT, CANCELLED
C18_Witness ==
    \E p \in Procs :
        LET r == inv[p] IN
        /\ IsOrder(r) /\ Stage(r) = "CANCELLED"
        /\ Len(r.trace) = 4 /\ RefusesNewSize(r.trace[4])
        /\ r.trace[4].result.action = "decline"

(***************************************************************************)
(* C19: a create_order that returns (rather than raises) returns a marked  *)
(* text exactly when it made no order POST: "[CANCELLED]..." exactly when  *)
(* ctx.elicit was called and its answer was not an accepted new size,      *)
(* "[FAILED]..." exactly when sz exceeded the balance and there was no     *)
(* ctx; otherwise it returns the exchange's JSON answer to its single      *)
(* POST.  get_balance, get_ticker and get_kline never return a marked text *)
(* and never POST.                                                         *)
(***************************************************************************)
Returned(r) == r.pc = "done" /\ r.result.kind \in {"text", "json"}

Marked(r, mark) == r.result.kind = "text" /\ Head(r.result.text) = mark

Sentinel(r) == Marked(r, "[CANCELLED]") \/ Marked(r, "[FAILED]")

C19_SentinelIffNoPost ==
    \A p \in Procs :
        LET r == inv[p] t == inv[p].trace IN
        /\ (IsOrder(r) /\ Returned(r)) =>
               /\ Sentinel(r) <=> Count(t, IsOrderPost) = 0
               /\ Marked(r, "[CANCELLED]") <=>
                      (Count(t, IsElicit) = 1 /\ \E i \in 1..Len(t) : RefusesNewSize(t[i]))
               /\ Marked(r, "[FAILED]") <=> (SizeExceeds(r) /\ ~r.call.ctx)
               /\ ~Sentinel(r) =>
                      /\ r.result.kind = "json"
                      /\ r.result.json \in OrderResponses
                      /\ Count(t, IsOrderPost) = 1
                      /\ IsOrderPost(t[Len(t)]) /\ ~Failed(t[Len(t)])
        /\ r.call.tool \in {"get_balance", "get_ticker", "get_kline"} =>
               /\ Count(t, IsOrderPost) = 0
               /\ \A i \in 1..Len(t) : IsRequest(t[i]) => t[i].method = GET
               /\ r.result.kind # "text"
               /\ r.result.kind = "json" => r.result.json \in Responses(r.call.tool)

\* a cancelled negotiation: a marked text and no POST
C19_Witness ==
    \E p \in Procs :
        LET r == inv[p] IN
        /\ IsOrder(r) /\ Returned(r)
        /\ Marked(r, "[CANCELLED]")
        /\ Count(r.trace, IsOrderPost) = 0
        /\ Count(r.trace, IsElicit) = 1
        /\ r.trace[Len(r.trace)].result.action = "accept"

====
